---- MODULE Spec2Model ----
(***************************************************************************)
(* freemail: HTTP mail ingestion (email/receiver.js: handleEmailReceive),  *)
(* the mail read API (api/emails.js: handleEmailsApi) and the client-side  *)
(* mail viewer (public/js/modules/app/email-viewer.js).                    *)
(*                                                                         *)
(* A string is a sequence of symbols.  A symbol is one character of a      *)
(* user-supplied value ("<CR>", "<LF>", "a", ...) or one fixed piece of    *)
(* text the code emits as a unit (a header name, a fixed header line).     *)
(***************************************************************************)
EXTENDS Integers, Sequences, FiniteSets, TLC

\* ------------------------------------------------------------------------
\* Bounds of the model
\* ------------------------------------------------------------------------
MaxTextLen == 2
MaxHtmlLen == 1
MaxInflight == 2

\* ------------------------------------------------------------------------
\* Symbols
\* ------------------------------------------------------------------------
CR == "<CR>"
LF == "<LF>"
CRLF == <<CR, LF>>
DD == "--"
QUOTE == "\""
NoSubject == "(no subject)"
H_FROM == "From: <"
H_TO == "To: <"
H_GT == ">"
H_SUBJECT == "Subject: "
H_DATE == "Date: "
H_MIME == "MIME-Version: 1.0"
CT_MULTI == "Content-Type: multipart/alternative; boundary="
CT_PLAIN == "Content-Type: text/plain; charset=\"utf-8\""
CT_HTML == "Content-Type: text/html; charset=\"utf-8\""
CTE_8BIT == "Content-Transfer-Encoding: 8bit"

\* SQL NULL / a missing JSON field, and the absence of a boundary parameter
Null == <<"<null>">>
NoBoundary == "<none>"

\* ------------------------------------------------------------------------
\* String helpers
\* ------------------------------------------------------------------------
RECURSIVE Join(_, _)
\* Array.prototype.join
Join(lines, sep) ==
  IF Len(lines) = 0 THEN <<>>
  ELSE IF Len(lines) = 1 THEN lines[1]
  ELSE lines[1] \o sep \o Join(Tail(lines), sep)

\* s.slice(from) with a 1-based index
Drop(s, from) == IF from > Len(s) THEN <<>> ELSE SubSeq(s, from, Len(s))

\* s.slice(0, n)
Take(s, n) == IF n >= Len(s) THEN s ELSE SubSeq(s, 1, n)

\* does t occur in s at position p
OccursAt(s, t, p) ==
  /\ p >= 1
  /\ p + Len(t) - 1 <= Len(s)
  /\ SubSeq(s, p, p + Len(t) - 1) = t

\* all strings over alphabet A of length at most n
StringsUpTo(A, n) == UNION {[1..k -> A] : k \in 0..n}

\* ------------------------------------------------------------------------
\* Envelope Builder: handleEmailReceive, the construction of eml
\* ------------------------------------------------------------------------
HeaderLines(sender, mailbox, subject, dateStr) ==
  << <<H_FROM>> \o sender \o <<H_GT>>,
     <<H_TO>> \o mailbox \o <<H_GT>>,
     <<H_SUBJECT>> \o subject,
     <<H_DATE>> \o dateStr,
     <<H_MIME>> >>

MultipartLines(boundary, text, html) ==
  << <<CT_MULTI, QUOTE, boundary, QUOTE>>,
     <<>>,
     <<DD, boundary>>,
     <<CT_PLAIN>>,
     <<CTE_8BIT>>,
     <<>>,
     text,
     <<DD, boundary>>,
     <<CT_HTML>>,
     <<CTE_8BIT>>,
     <<>>,
     html,
     <<DD, boundary, DD>>,
     <<>> >>

SinglePartLines(text) ==
  << <<CT_PLAIN>>,
     <<CTE_8BIT>>,
     <<>>,
     text,
     <<>> >>

\* a plausible slip: the multipart form only when both bodies are present
BuildEml_BothNeeded(sender, mailbox, subject, dateStr, boundary, text, html) ==
  IF html # <<>> /\ text # <<>>
  THEN Join(HeaderLines(sender, mailbox, subject, dateStr)
            \o MultipartLines(boundary, text, html), CRLF)
  ELSE Join(HeaderLines(sender, mailbox, subject, dateStr)
            \o SinglePartLines(text), CRLF)

BuildEml(sender, mailbox, subject, dateStr, boundary, text, html) ==
  IF html # <<>>
  THEN Join(HeaderLines(sender, mailbox, subject, dateStr)
            \o MultipartLines(boundary, text, html), CRLF)
  ELSE Join(HeaderLines(sender, mailbox, subject, dateStr)
            \o SinglePartLines(text), CRLF)

\* ------------------------------------------------------------------------
\* Message Parser: parseEmailBody of email/parser.js (spec 4.3)
\* ------------------------------------------------------------------------
Min(S) == CHOOSE x \in S : \A y \in S : x <= y

\* a line ends at q: end of input, a bare LF, or CR LF
AtLineEnd(s, q) ==
  \/ q > Len(s)
  \/ s[q] = LF
  \/ (s[q] = CR /\ q + 1 <= Len(s) /\ s[q + 1] = LF)

\* length of the line break at q (0 at the end of input)
LineBreakLen(s, q) ==
  IF q > Len(s) THEN 0 ELSE IF s[q] = LF THEN 1 ELSE 2

\* positions of the LF that opens a blank line: \r?\n\r?\n
BlankLineAt(s) ==
  {p \in 1..Len(s) : s[p] = LF /\ p + 1 <= Len(s)
                     /\ (s[p + 1] = LF \/ OccursAt(s, CRLF, p + 1))}

\* step 1: headers and body are split at the first blank line
SplitHeadersAndBody(raw) ==
  IF BlankLineAt(raw) = {}
  THEN [headers |-> raw, body |-> <<>>]
  ELSE LET p == Min(BlankLineAt(raw))
           hEnd == IF p > 1 /\ raw[p - 1] = CR THEN p - 2 ELSE p - 1
           bStart == IF raw[p + 1] = LF THEN p + 2 ELSE p + 3
       IN [headers |-> Take(raw, hEnd), body |-> Drop(raw, bStart)]

\* a line of s starts at p
IsLineStart(s, p) == p = 1 \/ s[p - 1] = LF

\* step 2: the Content-Type header of a header block
ContentTypeOf(headers) ==
  LET at == {p \in 1..Len(headers) : /\ headers[p] \in {CT_MULTI, CT_PLAIN, CT_HTML}
                                     /\ IsLineStart(headers, p)}
  IN IF at = {} THEN [kind |-> "text", boundary |-> NoBoundary]
     ELSE LET p == Min(at)
          IN IF headers[p] = CT_PLAIN THEN [kind |-> "text", boundary |-> NoBoundary]
             ELSE IF headers[p] = CT_HTML THEN [kind |-> "html", boundary |-> NoBoundary]
             ELSE IF p + 2 <= Len(headers) /\ headers[p + 1] = QUOTE
                  THEN [kind |-> "multipart", boundary |-> headers[p + 2]]
                  ELSE [kind |-> "multipart", boundary |-> NoBoundary]

\* a delimiter line --<boundary> starts at p
IsDelimAt(body, b, p) ==
  /\ OccursAt(body, <<DD, b>>, p)
  /\ IsLineStart(body, p)
  /\ AtLineEnd(body, p + 2)

\* the terminator line --<boundary>-- starts at p
IsCloseAt(body, b, p) ==
  /\ OccursAt(body, <<DD, b, DD>>, p)
  /\ IsLineStart(body, p)
  /\ AtLineEnd(body, p + 3)

\* the content of the part opened by the delimiter at p: from the end of the
\* delimiter line to the line break before the next delimiter line
PartAt(body, b, p) ==
  LET later == {q \in (p + 1)..Len(body) : IsDelimAt(body, b, q) \/ IsCloseAt(body, b, q)}
      first == p + 2 + LineBreakLen(body, p + 2)
      last == IF later = {} THEN Len(body)
              ELSE LET q == Min(later)
                   IN IF q > 2 /\ body[q - 2] = CR THEN q - 3 ELSE q - 2
  IN IF last < first THEN <<>> ELSE SubSeq(body, first, last)

RECURSIVE PartsFrom(_, _, _)
PartsFrom(body, b, opens) ==
  IF opens = {} THEN <<>>
  ELSE LET p == Min(opens)
       IN <<PartAt(body, b, p)>> \o PartsFrom(body, b, opens \ {p})

\* step 3: the parts between the delimiter lines, preamble, epilogue and
\* terminator discarded
SplitParts(body, b) ==
  LET closes == {p \in 1..Len(body) : IsCloseAt(body, b, p)}
      stop == IF closes = {} THEN Len(body) + 1 ELSE Min(closes)
      opens == {p \in 1..Len(body) : p < stop /\ IsDelimAt(body, b, p)}
  IN PartsFrom(body, b, opens)

\* steps 3 and 4 for one part: its own header block decides its kind
ParsePart(part) ==
  LET hb == SplitHeadersAndBody(part)
  IN [kind |-> ContentTypeOf(hb.headers).kind, body |-> hb.body]

\* the first part of a kind wins
FirstOfKind(parts, kind) ==
  LET parsed == [i \in 1..Len(parts) |-> ParsePart(parts[i])]
      at == {i \in 1..Len(parts) : parsed[i].kind = kind}
  IN IF at = {} THEN <<>> ELSE parsed[Min(at)].body

parseEmailBody(raw) ==
  LET hb == SplitHeadersAndBody(raw)
      ct == ContentTypeOf(hb.headers)
  IN IF ct.kind = "multipart"
     THEN LET parts == SplitParts(hb.body, ct.boundary)
          IN [text |-> FirstOfKind(parts, "text"), html |-> FirstOfKind(parts, "html")]
     ELSE IF ct.kind = "html"
     THEN [text |-> <<>>, html |-> hb.body]
     ELSE [text |-> hb.body, html |-> <<>>]

\* ------------------------------------------------------------------------
\* State
\* ------------------------------------------------------------------------
VARIABLES
  epc, ein, eeml, eparsed,   \* one envelope built and parsed back
  mailboxes,                 \* table mailboxes: the address of id i at index i
  messages,                  \* table messages: a set of rows
  nextId,                    \* the AUTOINCREMENT counter of messages.id
  now,                       \* the clock, in hours
  recv,                      \* the invocations of handleEmailReceive
  api,                       \* the request handleEmailsApi is answering, if any
  cache,                     \* the viewer's cache of mail details, by id
  shown                      \* what the viewer's detail modal shows

evars == <<epc, ein, eeml, eparsed>>
dbvars == <<mailboxes, messages, nextId, now>>
clientvars == <<cache, shown>>
vars == <<epc, ein, eeml, eparsed, mailboxes, messages, nextId, now, recv, api, cache, shown>>

\* crypto.randomUUID(): the token is any of the values the source may draw
Boundaries == {"mf-1", "mf-2"}

\* JavaScript truthiness of a nullable string
Truthy(x) == x # Null /\ x # <<>>

\* x || d
OrElse(x, d) == IF Truthy(x) THEN x ELSE d

\* ------------------------------------------------------------------------
\* Address Normalizer: extractEmail of utils/common.js (spec 4.1)
\* ------------------------------------------------------------------------
AddrAtoms == {"a@x", "b@y", "c@z", "d@w"}
Spaces == {" ", CR, LF}

RECURSIVE TrimLeft(_)
TrimLeft(s) == IF s # <<>> /\ s[1] \in Spaces THEN TrimLeft(Tail(s)) ELSE s

RECURSIVE TrimRight(_)
TrimRight(s) ==
  IF s # <<>> /\ s[Len(s)] \in Spaces THEN TrimRight(SubSeq(s, 1, Len(s) - 1)) ELSE s

\* String.prototype.trim
Trim(s) == TrimRight(TrimLeft(s))

\* the first address found, else the trimmed input
extractEmail(raw) ==
  LET at == {p \in 1..Len(raw) : raw[p] \in AddrAtoms}
  IN IF at = {} THEN Trim(raw) ELSE <<raw[Min(at)]>>

\* ------------------------------------------------------------------------
\* HTML-to-Text Reducer: stripHtml of email/parser.js (spec 4.4)
\* ------------------------------------------------------------------------
TagSyms == {"<p>", "</p>", "<b>", "</b>"}

RECURSIVE CollapseSpaces(_)
\* replace(/\s+/g, ' ')
CollapseSpaces(s) ==
  IF s = <<>> THEN <<>>
  ELSE IF s[1] \in Spaces
       THEN IF Len(s) > 1 /\ s[2] \in Spaces
            THEN CollapseSpaces(Tail(s))
            ELSE <<" ">> \o CollapseSpaces(Tail(s))
       ELSE <<s[1]>> \o CollapseSpaces(Tail(s))

RECURSIVE TagsToSpaces(_)
TagsToSpaces(s) ==
  IF s = <<>> THEN <<>>
  ELSE (IF s[1] \in TagSyms THEN <<" ">> ELSE <<s[1]>>) \o TagsToSpaces(Tail(s))

stripHtml(html) == Trim(CollapseSpaces(TagsToSpaces(html)))

\* ------------------------------------------------------------------------
\* Verification-Code Extractor: extractVerificationCode of email/parser.js
\* (spec 4.5) and extractCode of ui-helpers.js
\* ------------------------------------------------------------------------
TriggerSyms == {"code", "OTP"}
CodeSyms == {"1234", "5678", "4321"}

\* a code right after a trigger word, or one blank further
CodeAfterTrigger(s) ==
  LET at == {p \in 1..Len(s) :
               /\ s[p] \in TriggerSyms
               /\ \/ (p + 1 <= Len(s) /\ s[p + 1] \in CodeSyms)
                  \/ (p + 2 <= Len(s) /\ s[p + 1] \in Spaces /\ s[p + 2] \in CodeSyms)}
  IN IF at = {} THEN <<>>
     ELSE LET p == Min(at)
          IN IF s[p + 1] \in CodeSyms THEN <<s[p + 1]>> ELSE <<s[p + 2]>>

\* the first bare run of digits
BareCode(s) ==
  LET at == {p \in 1..Len(s) : s[p] \in CodeSyms}
  IN IF at = {} THEN <<>> ELSE <<s[Min(at)]>>

\* the heuristic on one string: trigger proximity, then the numeric run
CodeIn(s) == IF CodeAfterTrigger(s) # <<>> THEN CodeAfterTrigger(s) ELSE BareCode(s)

\* subject first, then text, then the stripped html
extractVerificationCode(subject, text, html) ==
  IF CodeIn(subject) # <<>> THEN CodeIn(subject)
  ELSE IF CodeIn(text) # <<>> THEN CodeIn(text)
  ELSE CodeIn(stripHtml(html))

\* the client's extractor, given the one string the viewer passes
extractCode(content) == CodeIn(stripHtml(content))

\* ------------------------------------------------------------------------
\* The envelope round trip on its own: one envelope is built from a
\* supplied subject, text and html, then parsed back
\* ------------------------------------------------------------------------

BodyChars == {"a", DD, "mf-1", CR, LF}
Texts == StringsUpTo(BodyChars, MaxTextLen)
Htmls == StringsUpTo(BodyChars, MaxHtmlLen)
Subjects == {<<NoSubject>>, <<"s">>, <<"s", CR, LF>>, <<"s", LF, "s">>}
EnvSender == <<"a@x">>
EnvMailbox == <<"b@y">>
EnvDate == <<"date">>

\* the envelope variables at rest
EnvelopeIdle ==
  /\ epc = "idle"
  /\ ein = [subject |-> <<NoSubject>>, text |-> <<>>, html |-> <<>>, boundary |-> "mf-1"]
  /\ eeml = <<>>
  /\ eparsed = [text |-> <<>>, html |-> <<>>]

\* handleEmailReceive, lines 30-70, on one input
EBuild ==
  /\ epc = "idle"
  /\ \E subject \in Subjects, text \in Texts, html \in Htmls, boundary \in Boundaries :
       /\ ein' = [subject |-> subject, text |-> text, html |-> html, boundary |-> boundary]
       /\ eeml' = BuildEml(EnvSender, EnvMailbox, subject, EnvDate, boundary, text, html)
  /\ epc' = "built"
  /\ UNCHANGED <<eparsed, dbvars, recv, api, clientvars>>

\* the read path's parseEmailBody(row.eml_content) on the stored blob
EParse ==
  /\ epc = "built"
  /\ eparsed' = parseEmailBody(eeml)
  /\ epc' = "parsed"
  /\ UNCHANGED <<ein, eeml, dbvars, recv, api, clientvars>>

\* ------------------------------------------------------------------------
\* Ingestion: handleEmailReceive, one step per stretch between two awaits
\* ------------------------------------------------------------------------
\* the JSON bodies that arrive; a field that is missing or null is Null, an
\* empty string is <<>>
Payload(valid, to, from, subject, text, html) ==
  [valid |-> valid, to |-> to, from |-> from, subject |-> subject, text |-> text, html |-> html]

PayloadFull ==
  Payload(TRUE, <<"Bob", " ", "<", "b@y", ">">>, <<"a@x">>, <<"code", " ", "1234">>,
          <<"hello">>, <<"<p>", "hi", "</p>">>)
PayloadText == Payload(TRUE, <<"c@z">>, <<"d@w">>, <<>>, <<"OTP", " ", "5678">>, Null)
PayloadEmpty == Payload(TRUE, Null, Null, Null, Null, Null)
PayloadBad == Payload(FALSE, Null, Null, Null, Null, Null)

Payloads == {PayloadFull, PayloadText, PayloadEmpty, PayloadBad}

Invocations == 1..MaxInflight

\* slice(0, 120) of the preview
PreviewMax == 120

IdleSlot ==
  [pc |-> "idle", payload |-> Payload(FALSE, Null, Null, Null, Null, Null),
   to |-> <<>>, from |-> <<>>, subject |-> <<>>, text |-> <<>>, html |-> <<>>,
   mailbox |-> <<>>, sender |-> <<>>, mailboxId |-> 0,
   boundary |-> NoBoundary, dateStr |-> <<>>, eml |-> <<>>, preview |-> <<>>,
   verificationCode |-> <<>>, threw |-> FALSE, fault |-> "none", status |-> 0, rowId |-> 0]

\* a slip: String(x), the default dropped
Coerce_NoDefault(x, d) == IF x = Null THEN <<"undefined">> ELSE x

\* String(x || d)
Coerce(x, d) == OrElse(x, d)

\* (text || stripHtml(html)).replace(/\s+/g, ' ').trim(), then slice(0, 120)
PreviewOf(text, html) ==
  Take(Trim(CollapseSpaces(IF text # <<>> THEN text ELSE stripHtml(html))), PreviewMax)

\* getOrCreateMailboxId of db/index.js: the id of the address, created if missing
MailboxIdOf(boxes, address) ==
  LET at == {i \in 1..Len(boxes) : boxes[i] = address}
  IN IF at = {} THEN 0 ELSE Min(at)

getOrCreateMailboxId(boxes, address) ==
  IF MailboxIdOf(boxes, address) # 0
  THEN [boxes |-> boxes, id |-> MailboxIdOf(boxes, address)]
  ELSE [boxes |-> Append(boxes, address), id |-> Len(boxes) + 1]

\* an exception of the extractor with the inner try/catch removed
ExtractionAborts_NoCatch(threw) == threw

\* try { verificationCode = extractVerificationCode(...) } catch (_) { }
ExtractionAborts(threw) == FALSE

\* the eml bound to the INSERT by invocation i, were eml shared by all invocations
InsertedEml_Shared(slots, i) ==
  LET built == {j \in DOMAIN slots : slots[j].pc \in {"insert", "done"} /\ slots[j].eml # <<>>}
  IN slots[CHOOSE j \in built : \A k \in built : k <= j].eml

\* the eml bound to the INSERT by invocation i: its own local
InsertedEml(slots, i) == slots[i].eml

\* the row the INSERT writes (content, html_content are legacy columns)
InsertedRow(id, receivedAt, mailboxId, sender, to, subject, verificationCode, preview, eml) ==
  [id |-> id, mailbox_id |-> mailboxId, sender |-> sender, to_addrs |-> to,
   subject |-> OrElse(subject, <<NoSubject>>),
   verification_code |-> OrElse(verificationCode, Null),
   preview |-> OrElse(preview, Null),
   eml_content |-> OrElse(eml, Null),
   received_at |-> receivedAt, is_read |-> 0, content |-> Null, html_content |-> Null]

\* lines 18-28: the body is read and coerced, the addresses are extracted and
\* getOrCreateMailboxId is called
RecvJson(i) ==
  /\ recv[i].pc = "idle"
  /\ \E payload \in Payloads :
       IF ~payload.valid
       THEN recv' = [recv EXCEPT ![i] =
              [IdleSlot EXCEPT !.pc = "done", !.payload = payload, !.fault = "json",
                               !.status = 500]]
       ELSE LET to == Coerce(payload.to, <<>>)
                from == Coerce(payload.from, <<>>)
            IN recv' = [recv EXCEPT ![i] =
                 [IdleSlot EXCEPT !.pc = "resolve", !.payload = payload,
                                  !.to = to, !.from = from,
                                  !.subject = Coerce(payload.subject, <<NoSubject>>),
                                  !.text = Coerce(payload.text, <<>>),
                                  !.html = Coerce(payload.html, <<>>),
                                  !.mailbox = extractEmail(to),
                                  !.sender = extractEmail(from)]]
  /\ UNCHANGED <<evars, dbvars, api, clientvars>>

\* lines 28-78: getOrCreateMailboxId answers; the envelope, the preview and the
\* verification code are computed and the INSERT is issued
RecvResolve(i) ==
  /\ recv[i].pc = "resolve"
  /\ \E fail \in BOOLEAN, boundary \in Boundaries, threw \in BOOLEAN :
       LET r == recv[i]
           got == getOrCreateMailboxId(mailboxes, r.mailbox)
           dateStr == <<ToString(now)>>
       IN IF fail
          THEN /\ recv' = [recv EXCEPT ![i].pc = "done", ![i].fault = "resolve",
                                       ![i].status = 500]
               /\ UNCHANGED mailboxes
          ELSE /\ mailboxes' = got.boxes
               /\ IF ExtractionAborts(threw)
                  THEN recv' = [recv EXCEPT ![i].pc = "done", ![i].fault = "extract",
                                            ![i].threw = threw, ![i].mailboxId = got.id,
                                            ![i].status = 500]
                  ELSE recv' = [recv EXCEPT
                         ![i].pc = "insert",
                         ![i].mailboxId = got.id,
                         ![i].boundary = boundary,
                         ![i].dateStr = dateStr,
                         ![i].eml = BuildEml(r.sender, r.mailbox, r.subject, dateStr,
                                             boundary, r.text, r.html),
                         ![i].preview = PreviewOf(r.text, r.html),
                         ![i].threw = threw,
                         ![i].verificationCode =
                            IF threw THEN <<>>
                            ELSE extractVerificationCode(r.subject, r.text, r.html)]
  /\ UNCHANGED <<evars, messages, nextId, now, api, clientvars>>

\* lines 79-96: the INSERT answers
RecvInsert(i) ==
  /\ recv[i].pc = "insert"
  /\ \E fail \in BOOLEAN :
       LET r == recv[i]
       IN IF fail
          THEN /\ recv' = [recv EXCEPT ![i].pc = "done", ![i].fault = "insert",
                                       ![i].status = 500]
               /\ UNCHANGED <<messages, nextId>>
          ELSE /\ messages' = messages \cup
                    {InsertedRow(nextId, now, r.mailboxId, r.sender, r.to, r.subject,
                                 r.verificationCode, r.preview, InsertedEml(recv, i))}
               /\ nextId' = nextId + 1
               /\ recv' = [recv EXCEPT ![i].pc = "done", ![i].status = 200,
                                       ![i].rowId = nextId]
  /\ UNCHANGED <<evars, mailboxes, now, api, clientvars>>

\* handleEmailReceive run to its end for one request: the row it leaves
ReceivedRow(id, receivedAt, mailboxId, payload, boundary, threw) ==
  LET to == Coerce(payload.to, <<>>)
      from == Coerce(payload.from, <<>>)
      subject == Coerce(payload.subject, <<NoSubject>>)
      text == Coerce(payload.text, <<>>)
      html == Coerce(payload.html, <<>>)
  IN InsertedRow(id, receivedAt, mailboxId, extractEmail(from), to, subject,
                 IF threw THEN <<>> ELSE extractVerificationCode(subject, text, html),
                 PreviewOf(text, html),
                 BuildEml(extractEmail(from), extractEmail(to), subject,
                          <<ToString(receivedAt)>>, boundary, text, html))

\* ------------------------------------------------------------------------
\* The mail API: handleEmailsApi, one operator per route
\* ------------------------------------------------------------------------
Digits == <<"0", "1", "2", "3", "4", "5", "6", "7", "8", "9">>
IsDigit(c) == \E d \in 1..Len(Digits) : Digits[d] = c
DigitVal(c) == (CHOOSE d \in 1..Len(Digits) : Digits[d] = c) - 1

RECURSIVE DigitsValue(_, _)
\* the value of the leading run of digits of s, after the digits read so far
DigitsValue(s, acc) ==
  IF s = <<>> \/ ~IsDigit(s[1]) THEN acc
  ELSE DigitsValue(Tail(s), acc * Len(Digits) + DigitVal(s[1]))

\* parseInt(s, 10): blanks skipped, a sign, then the leading digits; NaN
\* when there is no digit
parseInt(s) ==
  LET t == TrimLeft(s)
      neg == t # <<>> /\ t[1] = "-"
      u == IF t # <<>> /\ t[1] \in {"-", "+"} THEN Tail(t) ELSE t
  IN IF u = <<>> \/ ~IsDigit(u[1]) THEN [nan |-> TRUE, val |-> 0]
     ELSE [nan |-> FALSE, val |-> IF neg THEN 0 - DigitsValue(u, 0) ELSE DigitsValue(u, 0)]

\* the INTEGER the datastore compares the bound text with: only a text that
\* is a whole number converts; 0 stands for a text that matches no id
IdOfText(s) ==
  IF s # <<>> /\ \A p \in 1..Len(s) : IsDigit(s[p]) THEN DigitsValue(s, 0) ELSE 0

RECURSIVE SortById(_)
\* the rows of a result set in rowid order
SortById(rows) ==
  IF rows = {} THEN <<>>
  ELSE LET first == CHOOSE r \in rows : \A q \in rows : r.id <= q.id
       IN <<first>> \o SortById(rows \ {first})

\* 24 * 60 * 60 * 1000 ms, in hours
AccessWindow == 24

\* the optional AND received_at >= ? of the three read routes
InWindow(row, isMailboxOnly, clock) ==
  ~isMailboxOnly \/ row.received_at >= clock - AccessWindow

\* ids.length > 50
BatchCap == 50

\* buildMockEmailDetail of api/mock.js
buildMockEmailDetail(id) == [mock |-> TRUE, id |-> id]

EmptyParsed == [text |-> <<>>, html |-> <<>>]

\* a row that predates eml_content: migrated, or written by the old schema
LegacyRow(id, preview, eml, content, html_content) ==
  [id |-> id, mailbox_id |-> 1, sender |-> <<"a@x">>, to_addrs |-> <<"b@y">>,
   subject |-> <<"old">>, verification_code |-> Null, preview |-> preview,
   eml_content |-> eml, received_at |-> 0, is_read |-> 0,
   content |-> content, html_content |-> html_content]

\* the stored mailboxes: two received messages (the extractor raised on the
\* second), a migrated row with a preview only, a row of the old schema, a
\* row whose blob has no body, and a row with nothing
SeedClock == AccessWindow - 4
SeedBoxes == <<<<"b@y">>, <<"c@z">>>>
SeedRows ==
  { ReceivedRow(1, 0, 2, PayloadText, "mf-2", FALSE),
    ReceivedRow(2, SeedClock, 1, PayloadFull, "mf-1", TRUE),
    LegacyRow(3, <<"old", " ", "preview">>, Null, Null, Null),
    LegacyRow(4, Null, Null, <<"old", " ", "content">>, Null),
    LegacyRow(5, <<"pv">>, <<"X-Raw: 1">>, Null, Null),
    LegacyRow(6, Null, Null, Null, Null) }

\* parseEmailBody on the blobs of the stored mailbox, each parsed once
StoredParse ==
  [eml \in {r.eml_content : r \in SeedRows} \ {Null} |-> parseEmailBody(eml)]

\* try { if (row.eml_content) parsed = parseEmailBody(row.eml_content) } catch
ParsedOf(row, parserThrows) ==
  IF Truthy(row.eml_content) /\ ~parserThrows
  THEN IF row.eml_content \in DOMAIN StoredParse
       THEN StoredParse[row.eml_content]
       ELSE parseEmailBody(row.eml_content)
  ELSE EmptyParsed

\* the one element of a singleton: binds a value that is computed once
Only(S) == CHOOSE x \in S : TRUE

\* a slip: the preview tried before the raw blob
BatchContent_PreviewFirst(row, parserThrows) ==
  Only({ LET c1 == IF parsed.text = <<>> /\ parsed.html = <<>> /\ Truthy(row.preview)
                   THEN row.preview ELSE parsed.text
             c2 == IF c1 = <<>> /\ parsed.html = <<>> /\ Truthy(row.eml_content)
                   THEN row.eml_content ELSE c1
         IN [content |-> c2, html_content |-> parsed.html]
         : parsed \in {ParsedOf(row, parserThrows)} })

\* lines 113-131: the content of one row of a batch answer
BatchContent(row, parserThrows) ==
  Only({ LET c1 == IF parsed.text = <<>> /\ parsed.html = <<>> /\ Truthy(row.eml_content)
                   THEN row.eml_content ELSE parsed.text
             c2 == IF c1 = <<>> /\ parsed.html = <<>> /\ Truthy(row.preview)
                   THEN row.preview ELSE c1
         IN [content |-> c2, html_content |-> parsed.html]
         : parsed \in {ParsedOf(row, parserThrows)} })

\* lines 220-251: the content of a single-detail answer; legacyFails is the
\* SELECT of the legacy columns raising
DetailContent(row, parserThrows, legacyFails) ==
  Only({ LET c1 == IF parsed.text = <<>> /\ parsed.html = <<>> /\ Truthy(row.eml_content)
                   THEN row.eml_content ELSE parsed.text
             asked == c1 = <<>> /\ parsed.html = <<>>
             c2 == IF asked /\ ~legacyFails THEN OrElse(row.content, <<>>) ELSE c1
             h2 == IF asked /\ ~legacyFails THEN OrElse(row.html_content, <<>>)
                   ELSE parsed.html
             c3 == IF c2 = <<>> /\ h2 = <<>> /\ Truthy(row.preview) THEN row.preview ELSE c2
         IN [content |-> c3, html_content |-> h2, asked |-> asked]
         : parsed \in {ParsedOf(row, parserThrows)} })

\* SELECT id, sender, to_addrs, subject, verification_code, preview,
\* eml_content, received_at, is_read, then { ...row, content, html_content }
DetailItem(row, c) ==
  [id |-> row.id, sender |-> row.sender, to_addrs |-> row.to_addrs, subject |-> row.subject,
   verification_code |-> row.verification_code, preview |-> row.preview,
   eml_content |-> row.eml_content, received_at |-> row.received_at,
   is_read |-> row.is_read, content |-> c.content, html_content |-> c.html_content]

\* SELECT id, sender, subject, content, html_content, received_at, is_read
LegacyItem(row) ==
  [id |-> row.id, sender |-> row.sender, subject |-> row.subject,
   content |-> row.content, html_content |-> row.html_content,
   received_at |-> row.received_at, is_read |-> row.is_read]

Answer(status, body, queries, parses) ==
  [status |-> status, body |-> body, queries |-> queries, parses |-> parses]

\* the ids that pass .map(parseInt).filter(Number.isInteger(n) && n > 0)
ValidIds(idsParam) ==
  LET parsed == [k \in 1..Len(idsParam) |-> parseInt(idsParam[k])]
      keep(k) == ~parsed[k].nan /\ parsed[k].val > 0
      RECURSIVE From(_)
      From(k) == IF k > Len(idsParam) THEN <<>>
                 ELSE (IF keep(k) THEN <<parsed[k].val>> ELSE <<>>) \o From(k + 1)
  IN From(1)

\* SELECT ... FROM messages WHERE id IN (...) [AND received_at >= ?]
SelectByIds(rows, clock, ids, isMailboxOnly) ==
  SortById({r \in rows : (\E k \in 1..Len(ids) : ids[k] = r.id)
                         /\ InWindow(r, isMailboxOnly, clock)})

\* the calls of parseEmailBody a result set causes
ParseCalls(found) == Cardinality({k \in 1..Len(found) : Truthy(found[k].eml_content)})

\* a slip: the cap tested after the query and the parsing
BatchAnswer_CapLate(rows, clock, idsParam, isMock, isMailboxOnly, fault, parserThrows) ==
  Only({ Only({ IF Len(idsParam) = 0 \/ Len(ids) = 0 THEN Answer(200, <<>>, 0, 0)
                ELSE IF Len(ids) > BatchCap THEN Answer(400, <<>>, 1, ParseCalls(found))
                ELSE Answer(200, [k \in 1..Len(found) |->
                                   DetailItem(found[k], BatchContent(found[k], parserThrows))],
                            1, ParseCalls(found))
                : found \in {SelectByIds(rows, clock, ids, isMailboxOnly)} })
         : ids \in {ValidIds(idsParam)} })

\* GET /api/emails/batch, lines 80-147
BatchAnswer(rows, clock, idsParam, isMock, isMailboxOnly, fault, parserThrows) ==
  Only({ IF Len(idsParam) = 0 \/ Len(ids) = 0 THEN Answer(200, <<>>, 0, 0)
         ELSE IF Len(ids) > BatchCap THEN Answer(400, <<>>, 0, 0)
         ELSE IF isMock
         THEN Answer(200, [k \in 1..Len(ids) |-> buildMockEmailDetail(ids[k])], 0, 0)
         ELSE IF fault = "all" THEN Answer(500, <<>>, 2, 0)
         ELSE Only({ IF fault = "primary"
                     THEN Answer(200, [k \in 1..Len(found) |-> LegacyItem(found[k])], 2, 0)
                     ELSE Answer(200, [k \in 1..Len(found) |->
                                   DetailItem(found[k], BatchContent(found[k], parserThrows))],
                                 1, ParseCalls(found))
                     : found \in {SelectByIds(rows, clock, ids, isMailboxOnly)} })
         : ids \in {ValidIds(idsParam)} })

\* UPDATE messages SET is_read = 1 WHERE id = ?
MarkRead(rows, id) ==
  {IF r.id = id THEN [r EXCEPT !.is_read = 1] ELSE r : r \in rows}

DetailAnswered(status, body, queries, parses, rows) ==
  [status |-> status, body |-> body, queries |-> queries, parses |-> parses, rows |-> rows]

\* the 200 answer of the detail route for the row found
DetailFound(rows, row, emailId, parserThrows, legacyFails) ==
  Only({ DetailAnswered(200,
           [item |-> DetailItem(row, c),
            download |-> IF Truthy(row.eml_content)
                         THEN <<"/api/email/">> \o emailId \o <<"/download">>
                         ELSE <<>>],
           IF c.asked THEN 3 ELSE 2,
           IF Truthy(row.eml_content) THEN 1 ELSE 0,
           MarkRead(rows, row.id))
         : c \in {DetailContent(row, parserThrows, legacyFails)} })

\* GET /api/email/<id>, lines 194-263
DetailAnswer(rows, clock, emailId, isMock, isMailboxOnly, fault, parserThrows) ==
  LET id == IdOfText(emailId)
      found == {r \in rows : r.id = id /\ InWindow(r, isMailboxOnly, clock)}
      anyAge == {r \in rows : r.id = id}
  IN IF isMock THEN DetailAnswered(200, buildMockEmailDetail(emailId), 0, 0, rows)
     ELSE IF fault \in {"none", "legacy"}
     THEN IF found = {}
          THEN DetailAnswered(404, IF isMailboxOnly
                                   THEN <<"not found or past the 24-hour access period">>
                                   ELSE <<"not found">>, 1, 0, rows)
          ELSE DetailFound(rows, Only(found), emailId, parserThrows, fault = "legacy")
     ELSE IF fault = "primary"
     THEN IF anyAge = {}
          THEN DetailAnswered(404, <<"not found">>, 2, 0, rows)
          ELSE DetailAnswered(200, [item |-> LegacyItem(Only(anyAge)),
                                    download |-> <<>>], 3, 0, MarkRead(rows, id))
     ELSE DetailAnswered(500, <<"unhandled">>, 2, 0, rows)

\* String.prototype.toLowerCase on the address symbols
LowerCase(s) == [k \in DOMAIN s |-> IF s[k] = "B@Y" THEN "b@y" ELSE s[k]]

\* getMailboxIdByAddress of db/index.js: the id of the address, null (0) when
\* there is no such mailbox
getMailboxIdByAddress(boxes, address) == MailboxIdOf(boxes, address)

\* Math.min(..., 50) of the list route
ListCap == 50

\* url.searchParams.get('limit') || '20'
DefaultLimit == <<"2", "0">>

\* line 48: Math.min(parseInt(limit || '20', 10), 50); NaN stays NaN
ListLimit(limitParam) ==
  LET n == parseInt(OrElse(limitParam, DefaultLimit))
  IN IF n.nan THEN n ELSE [nan |-> FALSE, val |-> IF n.val > ListCap THEN ListCap ELSE n.val]

RECURSIVE SortByReceived(_)
\* ORDER BY received_at DESC; rows of one instant in rowid order
SortByReceived(rows) ==
  IF rows = {} THEN <<>>
  ELSE LET first == CHOOSE r \in rows :
                      \A q \in rows : \/ r.received_at > q.received_at
                                      \/ (r.received_at = q.received_at /\ r.id <= q.id)
       IN <<first>> \o SortByReceived(rows \ {first})

\* LIMIT n of the datastore: a negative n is no limit
Limited(found, n) == IF n < 0 THEN found ELSE Take(found, n)

\* SELECT id, sender, subject, received_at, is_read, preview, verification_code
ListItem(row) ==
  [id |-> row.id, sender |-> row.sender, subject |-> row.subject,
   received_at |-> row.received_at, is_read |-> row.is_read,
   preview |-> row.preview, verification_code |-> row.verification_code]

\* the fallback SELECT of the list: the preview cut from the legacy columns
LegacyListItem(row) ==
  [id |-> row.id, sender |-> row.sender, subject |-> row.subject,
   received_at |-> row.received_at, is_read |-> row.is_read,
   preview |-> IF Truthy(row.content) THEN Take(row.content, PreviewMax)
               ELSE Take(OrElse(row.html_content, <<>>), PreviewMax)]

\* buildMockEmails(6) of api/mock.js
buildMockEmails(n) == [k \in 1..n |-> [mock |-> TRUE, id |-> k]]

\* the answer of the list route and the limit it bound, if it computed one
Listed(status, body, queries, limit) ==
  [status |-> status, body |-> body, queries |-> queries, parses |-> 0, limit |-> limit]

\* GET /api/emails, lines 27-77
ListAnswer(boxes, rows, clock, mailbox, limitParam, isMock, isMailboxOnly, fault) ==
  IF ~Truthy(mailbox) THEN Listed(400, <<>>, 0, [nan |-> TRUE, val |-> 0])
  ELSE IF isMock THEN Listed(200, buildMockEmails(6), 0, [nan |-> TRUE, val |-> 0])
  ELSE IF fault = "all" THEN Listed(500, <<>>, 1, [nan |-> TRUE, val |-> 0])
  ELSE LET mailboxId == getMailboxIdByAddress(boxes, LowerCase(Trim(extractEmail(mailbox))))
           limit == ListLimit(limitParam)
           found == SortByReceived({r \in rows : /\ r.mailbox_id = mailboxId
                                                 /\ InWindow(r, isMailboxOnly, clock)})
       IN IF mailboxId = 0 THEN Listed(200, <<>>, 1, [nan |-> TRUE, val |-> 0])
          ELSE IF limit.nan THEN Listed(500, <<>>, 3, limit)
          ELSE IF fault = "primary"
          THEN Listed(200, [k \in 1..Len(Limited(found, limit.val)) |->
                              LegacyListItem(Limited(found, limit.val)[k])], 3, limit)
          ELSE Listed(200, [k \in 1..Len(Limited(found, limit.val)) |->
                              ListItem(Limited(found, limit.val)[k])], 2, limit)

\* the characters a file name keeps; any other becomes "_"
SafeName(s) ==
  LET kept == {"s", "old", "code", "1234", "OTP", "5678", "email", ".eml"}
  IN [k \in DOMAIN s |-> IF s[k] \in kept THEN s[k] ELSE "_"]

\* a slip: the download marks the message read, as the detail does
DownloadAnswer_Marks(rows, emailId, isMock, fault) ==
  LET found == {r \in rows : r.id = IdOfText(emailId)}
  IN IF isMock THEN DetailAnswered(403, <<"demo">>, 0, 0, rows)
     ELSE IF fault \in {"primary", "all"} THEN DetailAnswered(500, <<"unhandled">>, 1, 0, rows)
     ELSE IF found = {} \/ ~Truthy(Only(found).eml_content)
     THEN DetailAnswered(404, <<"no content">>, 1, 0, rows)
     ELSE DetailAnswered(200,
            [eml |-> Only(found).eml_content,
             filename |-> SafeName(OrElse(Only(found).subject, <<"email">>) \o <<".eml">>)],
            1, 0, MarkRead(rows, IdOfText(emailId)))

\* GET /api/email/<id>/download, lines 177-191: one SELECT by id, outside any
\* try, and no UPDATE
DownloadAnswer(rows, emailId, isMock, fault) ==
  LET found == {r \in rows : r.id = IdOfText(emailId)}
  IN IF isMock THEN DetailAnswered(403, <<"demo">>, 0, 0, rows)
     ELSE IF fault \in {"primary", "all"} THEN DetailAnswered(500, <<"unhandled">>, 1, 0, rows)
     ELSE IF found = {} \/ ~Truthy(Only(found).eml_content)
     THEN DetailAnswered(404, <<"no content">>, 1, 0, rows)
     ELSE DetailAnswered(200,
            [eml |-> Only(found).eml_content,
             filename |-> SafeName(OrElse(Only(found).subject, <<"email">>) \o <<".eml">>)],
            1, 0, rows)

\* DELETE /api/emails, lines 150-174
ClearAnswer(boxes, rows, mailbox, isMock, fault) ==
  IF isMock THEN DetailAnswered(403, <<"demo">>, 0, 0, rows)
  ELSE IF ~Truthy(mailbox) THEN DetailAnswered(400, <<"mailbox">>, 0, 0, rows)
  ELSE IF fault = "all" THEN DetailAnswered(500, <<"clear">>, 1, 0, rows)
  ELSE LET mailboxId == getMailboxIdByAddress(boxes, LowerCase(Trim(extractEmail(mailbox))))
           gone == {r \in rows : r.mailbox_id = mailboxId}
       IN IF mailboxId = 0
          THEN DetailAnswered(200, [success |-> TRUE, deletedCount |-> 0], 1, 0, rows)
          ELSE DetailAnswered(200, [success |-> TRUE, deletedCount |-> Cardinality(gone)],
                              2, 0, rows \ gone)

\* a slip: the demo guard of the delete route dropped
DeleteAnswer_NoDemoGuard(rows, emailId, isMock, fault) ==
  LET gone == {r \in rows : r.id = IdOfText(emailId)}
  IN IF emailId = <<>> \/ parseInt(emailId).nan
     THEN DetailAnswered(400, <<"invalid id">>, 0, 0, rows)
     ELSE IF fault = "all" THEN DetailAnswered(500, <<"delete">>, 1, 0, rows)
     ELSE DetailAnswered(200, [success |-> TRUE, deleted |-> gone # {}], 1, 0, rows \ gone)

\* DELETE /api/email/<id>, lines 266-287
DeleteAnswer(rows, emailId, isMock, fault) ==
  LET gone == {r \in rows : r.id = IdOfText(emailId)}
  IN IF isMock THEN DetailAnswered(403, <<"demo">>, 0, 0, rows)
     ELSE IF emailId = <<>> \/ parseInt(emailId).nan
     THEN DetailAnswered(400, <<"invalid id">>, 0, 0, rows)
     ELSE IF fault = "all" THEN DetailAnswered(500, <<"delete">>, 1, 0, rows)
     ELSE DetailAnswered(200, [success |-> TRUE, deleted |-> gone # {}], 1, 0, rows \ gone)

\* the path of a request, split on "/"
ListPath == <<<<"api">>, <<"emails">>>>
BatchPath == <<<<"api">>, <<"emails">>, <<"batch">>>>
EmailPath(id) == <<<<"api">>, <<"email">>, id>>
DownloadPath(id) == <<<<"api">>, <<"email">>, id, <<"download">>>>

\* path.startsWith('/api/email/')
UnderEmail(path) == Len(path) >= 3 /\ path[1] = <<"api">> /\ path[2] = <<"email">>

\* path.endsWith('/download')
EndsInDownload(path) == path[Len(path)] = <<"download">>

\* the route that serves a request: the first if of handleEmailsApi whose
\* test holds
Route(method, path) ==
  IF path = ListPath /\ method = "GET" THEN "list"
  ELSE IF path = BatchPath /\ method = "GET" THEN "batch"
  ELSE IF method = "DELETE" /\ path = ListPath THEN "clear"
  ELSE IF method = "GET" /\ UnderEmail(path) /\ EndsInDownload(path) THEN "download"
  ELSE IF method = "GET" /\ UnderEmail(path) THEN "detail"
  ELSE IF method = "DELETE" /\ UnderEmail(path) THEN "delete"
  ELSE "none"

\* ------------------------------------------------------------------------
\* The mail API serving requests, one at a time, over a stored mailbox
\* ------------------------------------------------------------------------
MaxTicks == 2

\* the decimal text of a number below 100
Tok(n) ==
  IF n < Len(Digits) THEN <<Digits[n + 1]>>
  ELSE <<Digits[(n \div Len(Digits)) + 1], Digits[(n % Len(Digits)) + 1]>>

DbSeeded ==
  /\ mailboxes = SeedBoxes
  /\ messages = SeedRows
  /\ nextId = Cardinality(SeedRows) + 1
  /\ now = SeedClock

\* what may go wrong while a request is served: which queries raise, and
\* whether parseEmailBody raises
Env(fault, parserThrows) == [fault |-> fault, parserThrows |-> parserThrows]
Envs == {Env("none", FALSE), Env("none", TRUE), Env("legacy", FALSE),
         Env("primary", FALSE), Env("all", FALSE)}

\* the ids query parameter, split on ","
Run(n) == [k \in 1..n |-> Tok(k)]
IdsParams ==
  { <<>>,
    <<<<"x">>>>,
    <<<<"0">>, <<"-", "1">>, <<"x">>, <<>>>>,
    <<Tok(1)>>,
    <<Tok(2), <<"2", "a">>, <<"x">>, Tok(1)>>,
    <<Tok(3), Tok(4), Tok(5), Tok(6), Tok(9)>>,
    Run(BatchCap),
    Run(BatchCap + 1),
    <<<<"x">>>> \o Run(BatchCap) }

\* the <id> segment of /api/email/<id>
EmailIds == {Tok(1), Tok(2), Tok(3), Tok(4), Tok(5), Tok(6), Tok(9), <<"x">>, <<"2", "a">>}

ApiIdle == [route |-> "idle"]

\* GET /api/emails/batch?ids=...
ApiBatch ==
  /\ api = ApiIdle
  /\ Route("GET", BatchPath) = "batch"
  /\ \E idsParam \in IdsParams, isMock \in BOOLEAN, isMailboxOnly \in BOOLEAN, env \in Envs :
       api' = [route |-> "batch", path |-> BatchPath, ids |-> idsParam, isMock |-> isMock,
               isMailboxOnly |-> isMailboxOnly, env |-> env,
               ans |-> BatchAnswer(messages, now, idsParam, isMock, isMailboxOnly,
                                   env.fault, env.parserThrows)]
  /\ UNCHANGED <<evars, dbvars, recv, clientvars>>

\* the paths under /api/email/ that are requested
EmailPaths == {EmailPath(id) : id \in EmailIds} \cup {DownloadPath(id) : id \in EmailIds}

\* the mailbox and limit query parameters; Null is a parameter that is absent
MailboxParams == {Null, <<"B@Y">>, <<"c@z">>, <<"d@w">>}
LimitParams == {Null, <<"0">>, <<"-", "1">>, <<"x">>, <<"2">>, <<"9", "9">>}

\* the faults of a route that does not parse
QueryEnvs == {Env("none", FALSE), Env("primary", FALSE), Env("all", FALSE)}

\* GET /api/emails?mailbox=...&limit=...
ApiList ==
  /\ api = ApiIdle
  /\ Route("GET", ListPath) = "list"
  /\ \E mailbox \in MailboxParams, limitParam \in LimitParams, isMock \in BOOLEAN,
        isMailboxOnly \in BOOLEAN, env \in QueryEnvs :
       \E a \in {ListAnswer(mailboxes, messages, now, mailbox, limitParam, isMock,
                            isMailboxOnly, env.fault)} :
          api' = [route |-> "list", path |-> ListPath, mailbox |-> mailbox,
                  limitParam |-> limitParam, isMock |-> isMock,
                  isMailboxOnly |-> isMailboxOnly, env |-> env, limit |-> a.limit,
                  ans |-> [status |-> a.status, body |-> a.body,
                           queries |-> a.queries, parses |-> a.parses]]
  /\ UNCHANGED <<evars, dbvars, recv, clientvars>>

\* GET /api/email/<id>
ApiDetail ==
  /\ api = ApiIdle
  /\ \E path \in EmailPaths, isMock \in BOOLEAN, isMailboxOnly \in BOOLEAN, env \in Envs :
       /\ Route("GET", path) = "detail"
       /\ \E a \in {DetailAnswer(messages, now, path[3], isMock, isMailboxOnly,
                                  env.fault, env.parserThrows)} :
            /\ api' = [route |-> "detail", path |-> path, emailId |-> path[3],
                       isMock |-> isMock, isMailboxOnly |-> isMailboxOnly, env |-> env,
                       ans |-> [status |-> a.status, body |-> a.body,
                                queries |-> a.queries, parses |-> a.parses]]
            /\ messages' = a.rows
  /\ UNCHANGED <<evars, mailboxes, nextId, now, recv, clientvars>>

\* GET /api/email/<id>/download
ApiDownload ==
  /\ api = ApiIdle
  /\ \E path \in EmailPaths, isMock \in BOOLEAN, isMailboxOnly \in BOOLEAN, env \in QueryEnvs :
       /\ Route("GET", path) = "download"
       /\ \E a \in {DownloadAnswer(messages, path[3], isMock, env.fault)} :
            /\ api' = [route |-> "download", path |-> path, emailId |-> path[3],
                       isMock |-> isMock, isMailboxOnly |-> isMailboxOnly, env |-> env,
                       ans |-> [status |-> a.status, body |-> a.body,
                                queries |-> a.queries, parses |-> a.parses]]
            /\ messages' = a.rows
  /\ UNCHANGED <<evars, mailboxes, nextId, now, recv, clientvars>>

\* DELETE /api/emails?mailbox=...
ApiClear ==
  /\ api = ApiIdle
  /\ Route("DELETE", ListPath) = "clear"
  /\ \E mailbox \in MailboxParams, isMock \in BOOLEAN, isMailboxOnly \in BOOLEAN,
        env \in QueryEnvs :
       \E a \in {ClearAnswer(mailboxes, messages, mailbox, isMock, env.fault)} :
          /\ api' = [route |-> "clear", path |-> ListPath, mailbox |-> mailbox,
                     isMock |-> isMock, isMailboxOnly |-> isMailboxOnly, env |-> env,
                     ans |-> [status |-> a.status, body |-> a.body,
                              queries |-> a.queries, parses |-> a.parses]]
          /\ messages' = a.rows
  /\ UNCHANGED <<evars, mailboxes, nextId, now, recv, clientvars>>

\* DELETE /api/email/<id>
ApiDelete ==
  /\ api = ApiIdle
  /\ \E path \in EmailPaths, isMock \in BOOLEAN, isMailboxOnly \in BOOLEAN, env \in QueryEnvs :
       /\ Route("DELETE", path) = "delete"
       /\ \E a \in {DeleteAnswer(messages, path[3], isMock, env.fault)} :
            /\ api' = [route |-> "delete", path |-> path, emailId |-> path[3],
                       isMock |-> isMock, isMailboxOnly |-> isMailboxOnly, env |-> env,
                       ans |-> [status |-> a.status, body |-> a.body,
                                queries |-> a.queries, parses |-> a.parses]]
            /\ messages' = a.rows
  /\ UNCHANGED <<evars, mailboxes, nextId, now, recv, clientvars>>

\* the response is delivered
ApiReturn ==
  /\ api # ApiIdle
  /\ api' = ApiIdle
  /\ UNCHANGED <<evars, dbvars, recv, clientvars>>

\* time passes, half an access window at a time
Tick ==
  /\ api = ApiIdle
  /\ now + AccessWindow \div 2 <= SeedClock + MaxTicks * (AccessWindow \div 2)
  /\ now' = now + AccessWindow \div 2
  /\ UNCHANGED <<evars, mailboxes, messages, nextId, recv, api, clientvars>>

\* ------------------------------------------------------------------------
\* The viewer: showEmailDetail of email-viewer.js
\* ------------------------------------------------------------------------
\* the ids of the mail list the viewer shows
ListedIds == {r.id : r \in SeedRows}

\* what r.json() gives the viewer: the fields it reads, undefined ones Null
EmailOfAnswer(a) ==
  IF a.status = 200
  THEN [ok |-> TRUE,
        subject |-> a.body.item.subject,
        verification_code |-> IF "verification_code" \in DOMAIN a.body.item
                              THEN a.body.item.verification_code ELSE Null,
        content |-> a.body.item.content,
        html_content |-> a.body.item.html_content]
  ELSE [ok |-> FALSE, subject |-> Null, verification_code |-> Null,
        content |-> Null, html_content |-> Null]

\* getEmailFromCache(id) misses, or hits an entry without content
NeedsFetch(id) ==
  \/ id \notin DOMAIN cache
  \/ (~Truthy(cache[id].html_content) /\ ~Truthy(cache[id].content))

\* setEmailCache(id, email)
CachePut(c, id, email) ==
  [k \in DOMAIN c \cup {id} |-> IF k = id THEN email ELSE c[k]]

\* lines 31-34: the code the modal shows
ShownOf(id, email) ==
  LET dbCode == email.verification_code
      source == OrElse(email.content, OrElse(email.html_content, <<>>))
      extractedCode == extractCode(source)
  IN [id |-> id, ok |-> email.ok, source |-> source, dbCode |-> dbCode,
      extractedCode |-> extractedCode, code |-> OrElse(dbCode, extractedCode)]

\* showEmailDetail(id), lines 16-118, the request to GET /api/email/<id>
\* included; an answer 500 is not JSON: the catch reports it
ShowEmailDetail(id) ==
  /\ IF NeedsFetch(id)
     THEN \E isMailboxOnly \in BOOLEAN, env \in Envs :
            \E a \in {DetailAnswer(messages, now, Tok(id), FALSE, isMailboxOnly,
                                   env.fault, env.parserThrows)} :
              /\ messages' = a.rows
              /\ IF a.status = 500
                 THEN UNCHANGED <<cache, shown>>
                 ELSE /\ cache' = CachePut(cache, id, EmailOfAnswer(a))
                      /\ shown' = ShownOf(id, EmailOfAnswer(a))
     ELSE /\ shown' = ShownOf(id, cache[id])
          /\ UNCHANGED <<cache, messages>>
  /\ UNCHANGED <<evars, mailboxes, nextId, now, recv, api>>

\* emails.slice(0, 5)
PrefetchTop == 5

\* the ids of the mail list of one mailbox, as GET /api/emails orders them
ListOf(mailboxId) ==
  LET found == SortByReceived({r \in messages : r.mailbox_id = mailboxId})
  IN [k \in 1..Len(found) |-> found[k].id]

RECURSIVE PrefetchFrom(_, _, _, _, _)
\* the loop of prefetchEmails over the ids left: a listed message that is
\* not in the cache is requested from GET /api/email/<id> and cached; an
\* answer that is not JSON is skipped
PrefetchFrom(ids, rows, c, isMailboxOnly, env) ==
  IF ids = <<>> THEN [rows |-> rows, cache |-> c]
  ELSE IF Head(ids) \in DOMAIN c
  THEN PrefetchFrom(Tail(ids), rows, c, isMailboxOnly, env)
  ELSE Only({ PrefetchFrom(Tail(ids), a.rows,
                           IF a.status = 500 THEN c
                           ELSE CachePut(c, Head(ids), EmailOfAnswer(a)),
                           isMailboxOnly, env)
              : a \in {DetailAnswer(rows, now, Tok(Head(ids)), FALSE, isMailboxOnly,
                                    env.fault, env.parserThrows)} })

\* prefetchEmails(emails, api), lines 262-273, for the list of one mailbox
PrefetchEmails ==
  /\ \E mailboxId \in 1..Len(mailboxes), isMailboxOnly \in BOOLEAN, env \in Envs :
       \E done \in {PrefetchFrom(Take(ListOf(mailboxId), PrefetchTop), messages, cache,
                                 isMailboxOnly, env)} :
          /\ messages' = done.rows
          /\ cache' = done.cache
  /\ UNCHANGED <<evars, mailboxes, nextId, now, recv, api, shown>>

\* copyFromEmailList(event, id), lines 229-255: hasCode is the button
\* carrying a code; without one the message is taken from the cache, or
\* requested from GET /api/email/<id> and cached
CopyFromEmailList(id) ==
  /\ \E hasCode \in BOOLEAN :
       IF hasCode \/ id \in DOMAIN cache
       THEN UNCHANGED <<messages, cache>>
       ELSE \E isMailboxOnly \in BOOLEAN, env \in Envs :
              \E a \in {DetailAnswer(messages, now, Tok(id), FALSE, isMailboxOnly,
                                     env.fault, env.parserThrows)} :
                /\ messages' = a.rows
                /\ cache' = IF a.status = 500 THEN cache
                            ELSE CachePut(cache, id, EmailOfAnswer(a))
  /\ UNCHANGED <<evars, mailboxes, nextId, now, recv, api, shown>>

\* ------------------------------------------------------------------------
\* Specifications
\* ------------------------------------------------------------------------
DbEmpty ==
  /\ mailboxes = <<>>
  /\ messages = {}
  /\ nextId = 1
  /\ now = 0

RecvIdle == recv = [i \in Invocations |-> IdleSlot]

ClientIdle ==
  /\ cache = <<>>
  /\ shown = [id |-> 0, ok |-> FALSE, source |-> <<>>, dbCode |-> Null,
              extractedCode |-> <<>>, code |-> <<>>]

EInit == EnvelopeIdle /\ DbEmpty /\ RecvIdle /\ api = ApiIdle /\ ClientIdle

ENext == EBuild \/ EParse

SpecEnvelope == EInit /\ [][ENext]_vars

RInit == EnvelopeIdle /\ DbEmpty /\ RecvIdle /\ api = ApiIdle /\ ClientIdle

RNext == \E i \in Invocations : RecvJson(i) \/ RecvResolve(i) \/ RecvInsert(i)

SpecReceive == RInit /\ [][RNext]_vars

Init == EnvelopeIdle /\ DbSeeded /\ RecvIdle /\ api = ApiIdle /\ ClientIdle

Next == ApiList \/ ApiBatch \/ ApiDetail \/ ApiDownload \/ ApiReturn \/ Tick

Spec == Init /\ [][Next]_vars

\* a demo deployment: options.mockOnly is set, for every request of every route
DNext ==
  \/ (ApiList /\ api'.isMock)
  \/ (ApiBatch /\ api'.isMock)
  \/ (ApiDetail /\ api'.isMock)
  \/ (ApiDownload /\ api'.isMock)
  \/ (ApiClear /\ api'.isMock)
  \/ (ApiDelete /\ api'.isMock)
  \/ ApiReturn
  \/ Tick

SpecDemo == Init /\ [][DNext]_vars

CInit == EnvelopeIdle /\ DbSeeded /\ RecvIdle /\ api = ApiIdle /\ ClientIdle

CNext ==
  \/ \E id \in ListedIds : ShowEmailDetail(id)
  \/ PrefetchEmails
  \/ \E id \in ListedIds : CopyFromEmailList(id)

SpecClient == CInit /\ [][CNext]_vars

\* ------------------------------------------------------------------------
\* Properties of the envelope (SpecEnvelope)
\* ------------------------------------------------------------------------
\* the header block every envelope starts with, each line ended by CR LF
EnvelopeHead(subject) ==
  <<H_FROM>> \o EnvSender \o <<H_GT>> \o CRLF
  \o <<H_TO>> \o EnvMailbox \o <<H_GT>> \o CRLF
  \o <<H_SUBJECT>> \o subject \o CRLF
  \o <<H_DATE>> \o EnvDate \o CRLF
  \o <<H_MIME>> \o CRLF

MultipartLayout(subject, b, text, html) ==
  EnvelopeHead(subject)
  \o <<CT_MULTI, QUOTE, b, QUOTE>> \o CRLF
  \o CRLF
  \o <<DD, b>> \o CRLF
  \o <<CT_PLAIN>> \o CRLF \o <<CTE_8BIT>> \o CRLF \o CRLF
  \o text \o CRLF
  \o <<DD, b>> \o CRLF
  \o <<CT_HTML>> \o CRLF \o <<CTE_8BIT>> \o CRLF \o CRLF
  \o html \o CRLF
  \o <<DD, b, DD>> \o CRLF

SinglePartLayout(subject, text) ==
  EnvelopeHead(subject)
  \o <<CT_PLAIN>> \o CRLF \o <<CTE_8BIT>> \o CRLF \o CRLF
  \o text \o CRLF

\* C1: a non-empty html gives the multipart/alternative layout (headers, blank
\* line, text/plain part, text/html part, each after --<token>, closed by
\* --<token>--); an empty html gives the single text/plain layout, which
\* declares no boundary; nothing but html being empty decides the form.
C1_EnvelopeForm ==
  epc # "idle" =>
    IF ein.html # <<>>
    THEN eeml = MultipartLayout(ein.subject, ein.boundary, ein.text, ein.html)
    ELSE /\ eeml = SinglePartLayout(ein.subject, ein.text)
         /\ \A p \in 1..Len(eeml) : eeml[p] # CT_MULTI

\* the multipart form was built for an html with an empty text
C1_Witness == epc = "built" /\ ein.html # <<>> /\ ein.text = <<>>

\* C2: splitting a multipart envelope on its delimiter lines gives exactly
\* the two parts supplied, whatever text and html contain.
C2_BoundaryIntegrity ==
  (epc # "idle" /\ ein.html # <<>>) =>
    LET parts == SplitParts(eeml, ein.boundary)
    IN /\ Len(parts) = 2
       /\ ParsePart(parts[1]).body = ein.text
       /\ ParsePart(parts[2]).body = ein.html

RECURSIVE NormEol(_)
\* line-ending normalization: CR LF and a bare CR become LF
NormEol(s) ==
  IF s = <<>> THEN <<>>
  ELSE IF OccursAt(s, CRLF, 1) THEN <<LF>> \o NormEol(Drop(s, 3))
  ELSE IF s[1] = CR THEN <<LF>> \o NormEol(Tail(s))
  ELSE <<s[1]>> \o NormEol(Tail(s))

RECURSIVE StripEol(_)
\* trailing line breaks removed
StripEol(s) ==
  IF s # <<>> /\ s[Len(s)] = LF THEN StripEol(SubSeq(s, 1, Len(s) - 1)) ELSE s

Norm(s) == StripEol(NormEol(s))

\* C3: a non-empty text with an empty html comes back from the parser as
\* that text, up to line endings, with an empty html.
C3_RoundTripText ==
  (epc = "parsed" /\ ein.text # <<>> /\ ein.html = <<>>) =>
    /\ Norm(eparsed.text) = Norm(ein.text)
    /\ eparsed.html = <<>>

\* C4: a non-empty text with a non-empty html come back from the parser
\* exactly as supplied.
C4_RoundTripBoth ==
  (epc = "parsed" /\ ein.text # <<>> /\ ein.html # <<>>) =>
    /\ eparsed.text = ein.text
    /\ eparsed.html = ein.html

\* every LF follows a CR and every CR precedes an LF
CRLFOnly(s) ==
  \A p \in 1..Len(s) :
    /\ s[p] = LF => (p > 1 /\ s[p - 1] = CR)
    /\ s[p] = CR => (p < Len(s) /\ s[p + 1] = LF)

\* C8: every line break of the stored blob is CR LF, for every subject,
\* text and html.
C8_CRLFThroughout == epc # "idle" => CRLFOnly(eeml)

\* ------------------------------------------------------------------------
\* Properties of ingestion (SpecReceive)
\* ------------------------------------------------------------------------
RowById(id) == CHOOSE row \in messages : row.id = id

\* the row a request inserts when it alone is served: every column but id
\* and received_at, from the request's own body, boundary, date and
\* extractor outcome
RowOfRequest(payload, boundary, dateStr, threw, row) ==
  LET to == OrElse(payload.to, <<>>)
      from == OrElse(payload.from, <<>>)
      subject == OrElse(payload.subject, <<NoSubject>>)
      text == OrElse(payload.text, <<>>)
      html == OrElse(payload.html, <<>>)
      code == IF threw THEN <<>> ELSE extractVerificationCode(subject, text, html)
  IN [id |-> row.id,
      mailbox_id |-> MailboxIdOf(mailboxes, extractEmail(to)),
      sender |-> extractEmail(from),
      to_addrs |-> to,
      subject |-> subject,
      verification_code |-> IF code = <<>> THEN Null ELSE code,
      preview |-> IF PreviewOf(text, html) = <<>> THEN Null ELSE PreviewOf(text, html),
      eml_content |-> BuildEml(extractEmail(from), extractEmail(to), subject, dateStr,
                               boundary, text, html),
      received_at |-> row.received_at, is_read |-> 0, content |-> Null, html_content |-> Null]

Succeeded == {i \in Invocations : recv[i].status = 200}

\* C7: an invocation whose extractor raised answers success and its row is
\* the row of the nothing-found case: a null verification code, and the
\* envelope, preview, sender and subject of the request.
C7_ExtractionFailure ==
  \A i \in Invocations :
    (recv[i].pc = "done" /\ recv[i].threw /\ recv[i].fault # "insert") =>
      /\ recv[i].status = 200
      /\ \E row \in messages :
           /\ row.id = recv[i].rowId
           /\ row.verification_code = Null
           /\ row = RowOfRequest(recv[i].payload, recv[i].boundary, recv[i].dateStr,
                                 TRUE, row)

\* the extractor raised on a message that carries a code, and the row is in
C7_Witness ==
  \E i \in Invocations :
    /\ recv[i].pc = "done" /\ recv[i].threw /\ recv[i].status = 200
    /\ extractVerificationCode(recv[i].subject, recv[i].text, recv[i].html) # <<>>

\* C9: whatever the interleaving, every successful invocation has inserted
\* one row, built from its own request only, and there are no other rows.
C9_IndependentIngestion ==
  /\ Cardinality(messages) = Cardinality(Succeeded)
  /\ \A i \in Succeeded :
       \E row \in messages :
         /\ row.id = recv[i].rowId
         /\ row = RowOfRequest(recv[i].payload, recv[i].boundary, recv[i].dateStr,
                               recv[i].threw, row)
  /\ \A i, j \in Succeeded : i # j => recv[i].rowId # recv[j].rowId

\* two requests with different bodies were interleaved: the second one built
\* its envelope before the first one inserted, and both rows are in
C9_Witness ==
  \E i, j \in Succeeded :
    /\ i < j
    /\ recv[i].rowId > recv[j].rowId
    /\ recv[i].payload # recv[j].payload
    /\ recv[i].boundary # recv[j].boundary

\* the field of a JSON body is missing, null or the empty string
Blank(x) == x = Null \/ x = <<>>

\* the first three header lines of an envelope
AddressHead(sender, mailbox, subject) ==
  <<H_FROM>> \o sender \o <<H_GT>> \o CRLF
  \o <<H_TO>> \o mailbox \o <<H_GT>> \o CRLF
  \o <<H_SUBJECT>> \o subject \o CRLF

\* C11: a field of the JSON body that is missing, null or empty is taken as
\* the empty string (to, from, text, html) or the placeholder (subject), any
\* other value as it is; the envelope starts with From: <sender>, To:
\* <mailbox> and Subject: <subject> for the normalized addresses and that
\* subject; the extractor is given that subject; the subject column holds it.
C11_InputCoercion ==
  \A i \in Invocations :
    (recv[i].payload.valid /\ recv[i].pc # "idle") =>
      LET r == recv[i]
          p == recv[i].payload
          subject == IF Blank(p.subject) THEN <<NoSubject>> ELSE p.subject
          text == IF Blank(p.text) THEN <<>> ELSE p.text
          html == IF Blank(p.html) THEN <<>> ELSE p.html
          to == IF Blank(p.to) THEN <<>> ELSE p.to
          from == IF Blank(p.from) THEN <<>> ELSE p.from
          head == AddressHead(extractEmail(from), extractEmail(to), subject)
      IN /\ r.to = to /\ r.from = from /\ r.subject = subject
         /\ r.text = text /\ r.html = html
         /\ r.eml # <<>> =>
              /\ Take(r.eml, Len(head)) = head
              /\ ~r.threw => r.verificationCode = extractVerificationCode(subject, text, html)
         /\ r.status = 200 => RowById(r.rowId).subject = subject

\* a body whose subject is the empty string and whose html is missing has
\* been stored, and so has a body with no field at all
C11_Witness ==
  /\ \E i \in Succeeded : recv[i].payload.subject = <<>> /\ recv[i].payload.html = Null
  /\ \E i \in Succeeded : recv[i].payload.subject = Null /\ recv[i].payload.to = Null

\* C17: a request answered success has inserted exactly one row, which is its
\* own; a request answered 500 leaves no row and no mailbox behind: every
\* mailbox has a message, or a request in flight that is about to insert one.
C17_IngestionAtomicity ==
  /\ \A i \in Succeeded : Cardinality({row \in messages : row.id = recv[i].rowId}) = 1
  /\ Cardinality(messages) = Cardinality(Succeeded)
  /\ \A m \in 1..Len(mailboxes) :
       \/ \E row \in messages : row.mailbox_id = m
       \/ \E i \in Invocations : recv[i].pc = "insert" /\ recv[i].mailboxId = m

\* ------------------------------------------------------------------------
\* Properties of the mail API (Spec)
\* ------------------------------------------------------------------------
\* the request was answered from the primary query of its route
ReadPath(route) ==
  /\ api.route = route
  /\ ~api.isMock
  /\ api.env.fault \in {"none", "legacy"}
  /\ api.ans.status = 200

\* the fallback chain as the claim states it, for one answered item
ChainHolds(item, single) ==
  LET row == RowById(item.id)
      blob == Truthy(row.eml_content)
      nothing == \/ ~blob
                 \/ api.env.parserThrows
                 \/ parseEmailBody(row.eml_content) = EmptyParsed
      legacy == /\ single
                /\ api.env.fault = "none"
                /\ (Truthy(row.content) \/ Truthy(row.html_content))
  IN /\ (blob /\ nothing) => (item.content = row.eml_content /\ item.html_content = <<>>)
     /\ (~blob /\ legacy) => /\ item.content = OrElse(row.content, <<>>)
                             /\ item.html_content = OrElse(row.html_content, <<>>)
     /\ (~blob /\ ~legacy /\ Truthy(row.preview)) =>
          (item.content = row.preview /\ item.html_content = <<>>)
     /\ (item.content = <<>> /\ item.html_content = <<>>) =>
          (~blob /\ ~Truthy(row.preview))

IsPositiveInt(token) == \E n \in {parseInt(token)} : ~n.nan /\ n.val > 0
CountValid(idsParam) == Cardinality({k \in 1..Len(idsParam) : IsPositiveInt(idsParam[k])})

\* C10: a batch request with more than 50 positive-integer ids is answered
\* 400 with no query and no parse; other tokens are dropped before the count;
\* an empty or all-invalid list is answered [] with no query; no answer
\* costs more than 50 parses.
C10_BatchCap ==
  api.route = "batch" =>
    \A valid \in {CountValid(api.ids)} :
      /\ api.ans.parses <= BatchCap
      /\ valid > BatchCap =>
           (api.ans.status = 400 /\ api.ans.queries = 0 /\ api.ans.parses = 0)
      /\ valid = 0 =>
           (api.ans.status = 200 /\ api.ans.body = <<>> /\ api.ans.queries = 0)
      /\ (valid > 0 /\ valid <= BatchCap) => api.ans.status # 400

\* a request with 51 valid ids has been refused
C10_Witness ==
  /\ api.route = "batch"
  /\ Len(api.ids) = BatchCap + 1
  /\ CountValid(api.ids) = BatchCap + 1
  /\ api.ans.status = 400

\* the message was received more than 24 hours before the clock
TooOld(row, clock) == row.received_at < clock - AccessWindow

\* the ids of the stored messages an answer gives out
Served(q) ==
  IF q.isMock \/ q.ans.status # 200 THEN {}
  ELSE IF q.route \in {"list", "batch"} THEN {q.ans.body[k].id : k \in 1..Len(q.ans.body)}
  ELSE IF q.route = "detail" THEN {q.ans.body.item.id}
  ELSE IF q.route = "download" THEN {IdOfText(q.emailId)}
  ELSE {}

\* a request is served in this step
Serving == api = ApiIdle /\ api' # ApiIdle

\* C12: with options.mailboxOnly set, no request gives out or changes a
\* message received more than 24 hours before it, and a detail request for
\* such a message is answered 404 "not found or past the 24-hour access
\* period".
C12_AccessWindow ==
  [][(Serving /\ api'.isMailboxOnly) =>
       /\ \A r \in messages : TooOld(r, now) => (r.id \notin Served(api') /\ r \in messages')
       /\ (/\ api'.route = "detail" /\ ~api'.isMock
           /\ api'.env.fault \in {"none", "legacy"}
           /\ \E r \in messages : r.id = IdOfText(api'.emailId) /\ TooOld(r, now))
          => /\ api'.ans.status = 404
             /\ api'.ans.body = <<"not found or past the 24-hour access period">>]_vars

\* every item of the answer is mock data
AllMock(body) == \A k \in 1..Len(body) : body[k].mock

\* C13: in a demo deployment no request queries the datastore or parses a
\* stored message; list, batch and detail are answered with mock data (or
\* refused for their parameters); clear, download and delete are answered
\* 403; the stored mailboxes and messages stay as they were.
C13_DemoSideEffectFree ==
  /\ messages = SeedRows
  /\ mailboxes = SeedBoxes
  /\ (api # ApiIdle /\ api.isMock) =>
       /\ api.ans.queries = 0 /\ api.ans.parses = 0
       /\ api.route \in {"clear", "download", "delete"} => api.ans.status = 403
       /\ api.route = "detail" =>
            (api.ans.status = 200 /\ api.ans.body = buildMockEmailDetail(api.emailId))
       /\ api.route = "batch" =>
            \/ (api.ans.status = 200 /\ AllMock(api.ans.body))
            \/ (api.ans.status = 400 /\ CountValid(api.ids) > BatchCap)
       /\ api.route = "list" =>
            \/ (api.ans.status = 200 /\ AllMock(api.ans.body) /\ api.ans.body # <<>>)
            \/ (api.ans.status = 400 /\ ~Truthy(api.mailbox))

\* the deletion of a stored, unread message was asked for and refused
C13_Witness ==
  /\ api # ApiIdle /\ api.route = "delete" /\ api.isMock
  /\ api.ans.status = 403
  /\ \E r \in messages : r.id = IdOfText(api.emailId) /\ r.is_read = 0

\* the step changes is_read of the row with this id to 1, and nothing else
OnlyMarksRead(id) ==
  /\ \A r \in messages :
       IF r.id = id THEN [r EXCEPT !.is_read = 1] \in messages' ELSE r \in messages'
  /\ Cardinality(messages') = Cardinality(messages)

\* C14: a detail request that finds its row sets is_read of that row to 1
\* and changes nothing else; a detail request answered otherwise, and every
\* list, batch and download request, changes nothing; a GET whose path ends
\* in /download is served by the download route, never by the detail route.
C14_ReadMarkingFrame ==
  [][Serving =>
       /\ api'.route = "detail" =>
            /\ ~EndsInDownload(api'.path)
            /\ IF api'.ans.status = 200 /\ ~api'.isMock
               THEN /\ \E r \in messages : r.id = IdOfText(api'.emailId)
                    /\ OnlyMarksRead(IdOfText(api'.emailId))
               ELSE messages' = messages
       /\ api'.route \in {"list", "batch", "download"} => messages' = messages
       /\ (UnderEmail(api'.path) /\ EndsInDownload(api'.path)) => api'.route = "download"]_vars

\* a message has been downloaded and is still unread, while another one has
\* been opened and is read
C14_Witness ==
  /\ api # ApiIdle /\ api.route = "download" /\ api.ans.status = 200
  /\ \E r \in messages : r.id = IdOfText(api.emailId) /\ r.is_read = 0
  /\ \E r \in messages : r.is_read = 1

\* the list request reached its SELECT
ListQueried == api # ApiIdle /\ api.route = "list" /\ api.ans.queries >= 2

\* C15: whatever the limit parameter, the limit bound to the SELECT of the
\* list is an integer of at most 50 (20 when the parameter is absent), and
\* the answer holds no more rows than that limit, so no more than 50.
C15_ListCap ==
  ListQueried =>
    /\ ~api.limit.nan
    /\ api.limit.val <= ListCap
    /\ api.limitParam = Null => api.limit.val = DigitsValue(DefaultLimit, 0)
    /\ Len(api.ans.body) <= api.limit.val
    /\ Len(api.ans.body) <= ListCap

\* ------------------------------------------------------------------------
\* Properties of the viewer (SpecClient)
\* ------------------------------------------------------------------------
\* the request a received message of the stored mailbox came from
SeedPayload(id) == IF id = 1 THEN PayloadText ELSE PayloadFull
ReceivedIds == {1, 2}

\* what the extractor computes for the message at ingestion
IngestionCode(id) ==
  LET p == SeedPayload(id)
  IN extractVerificationCode(OrElse(p.subject, <<NoSubject>>), OrElse(p.text, <<>>),
                             OrElse(p.html, <<>>))

\* C6: the modal shows the persisted code when there is one and the
\* recomputed code otherwise, and the code recomputed from the content of a
\* message is the code ingestion computes for that message.
C6_CodeConsistency ==
  (shown.ok /\ shown.id \in ReceivedIds /\ shown.source # <<>>) =>
    /\ shown.code = (IF Truthy(shown.dbCode) THEN shown.dbCode ELSE shown.extractedCode)
    /\ shown.extractedCode = IngestionCode(shown.id)

\* the message is unread before the step and read after it
BecomesRead(id) ==
  /\ \E r \in messages : r.id = id /\ r.is_read = 0
  /\ \E r \in messages' : r.id = id /\ r.is_read = 1

\* C16: a message goes from unread to read only in a step of showEmailDetail
\* for that message: prefetchEmails and copyFromEmailList mark none.
C16_ReadOnlyByOpening ==
  [][\A id \in ListedIds : BecomesRead(id) => ShowEmailDetail(id)]_vars

====
